---- MODULE Spec2Model ----
(***************************************************************************)
(* Resumable batch tokenization pipeline of libs/corpus_pass1.py:          *)
(* build_file_manifest, load_or_create_manifest, append_tokens_jsonl and   *)
(* process_manifest_to_jsonl, together with the files they work on (the    *)
(* source directory, the manifest CSV and the tokens JSONL file).          *)
(*                                                                         *)
(* Strings of the program (file texts, previews, tokens) are sequences of  *)
(* one-character strings.  Paths and error messages are TLA+ strings.      *)
(* A DataFrame.to_csv that runs to its end is one step; a process halted   *)
(* inside it leaves the file cut short.                                    *)
(***************************************************************************)
EXTENDS Integers, Sequences, FiniteSets, TLC

\* ------------------------------------------------------------------------
\* Bounds of the model
\* ------------------------------------------------------------------------
MaxFiles == 2

MaxRuns == 2

MaxSaveEvery == 2

PreviewChars == 2

\* rows of a token table handed to filter_tokens_df
MaxRows == 2

\* rows of a text table handed to tokenize_df
MaxDocs == 2

\* characters of a text handed to a tokenizer adapter
MaxText == 2

\* columns of a table handed to normalize_for_gsheet
MaxCols == 3

\* last second of the clock
MaxClock == 1

\* ------------------------------------------------------------------------
\* Values
\* ------------------------------------------------------------------------
\* pd.NA / NaN in a numeric cell (n_chars, n_tokens)
Missing == -1

\* NaN in a text cell, as read_csv gives for an empty field
NaN == "<NaN>"

NaNText == <<"<NaN>">>

Statuses == {"pending", "done", "failed"}

DefaultStatuses == {"pending", "failed"}

StatusChoices == SUBSET Statuses

FileIds == 1..MaxFiles

\* the first file may disappear and come back between calls; the others stay
Volatile == {1}

SaveEveryValues == 0..MaxSaveEvery

\* rel = str(p.relative_to(root_dir)); sorted order of the names is the
\* order of the file ids
RelPath(p) == ToString(p) \o ".txt"

\* The text of file p: file 2 is empty (b.txt of the scenario), the others
\* hold lines of the letter a separated by newlines.
Content(p) ==
    IF p = 2 THEN <<>>
    ELSE [k \in 1..(p + 2) |-> IF k % 2 = 0 THEN "\n" ELSE "a"]

Min(a, b) == IF a < b THEN a ELSE b

\* text.replace("\n", "\\n")
RECURSIVE EscapeNewlines(_)
EscapeNewlines(s) ==
    IF s = <<>> THEN <<>>
    ELSE (IF Head(s) = "\n" THEN <<"\\", "n">> ELSE <<Head(s)>>)
         \o EscapeNewlines(Tail(s))

\* the newlines are escaped first and the result is cut
PreviewEscapeFirst(text) ==
    SubSeq(EscapeNewlines(text), 1, Min(Len(EscapeNewlines(text)), PreviewChars))

\* preview = text[:preview_chars].replace("\n", "\\n")
Preview(text) == EscapeNewlines(SubSeq(text, 1, Min(Len(text), PreviewChars)))

\* The injected tokenize_text_fn on a text it accepts: the words between
\* newlines, in order.
RECURSIVE SplitLines(_, _)
SplitLines(s, cur) ==
    IF s = <<>> THEN (IF cur = <<>> THEN <<>> ELSE <<cur>>)
    ELSE IF Head(s) = "\n"
         THEN (IF cur = <<>> THEN <<>> ELSE <<cur>>) \o SplitLines(Tail(s), <<>>)
         ELSE SplitLines(Tail(s), Append(cur, Head(s)))

TokenizeText(text) == SplitLines(text, <<>>)

\* f"{type(e).__name__}: {e}" of the exception the tokenizer raises
TokError == "RuntimeError: tokenizer failed"

\* f"file not found: {rel_path}"
NotFoundError(rel) == "file not found: " \o rel

\* ------------------------------------------------------------------------
\* Manifest rows and the manifest file
\* ------------------------------------------------------------------------
\* the file a manifest row names: p = root_dir / rel_path
FileOf(rel) == CHOOSE p \in FileIds : RelPath(p) = rel

\* root_dir.rglob(...) yields the present files in an order the file
\* system chooses: any listing without repeats
Listings(S) ==
    {l \in [1..Cardinality(S) -> S] : \A a, b \in 1..Cardinality(S) : l[a] = l[b] => a = b}

\* insertion of a file into a sorted sequence
RECURSIVE Insert(_, _)
Insert(x, s) ==
    IF s = <<>> THEN <<x>>
    ELSE IF x <= Head(s) THEN <<x>> \o s
    ELSE <<Head(s)>> \o Insert(x, Tail(s))

\* the listing as rglob gave it
Unsorted(l) == l

\* sorted(...): the listing in ascending order of path
RECURSIVE Sorted(_)
Sorted(l) == IF l = <<>> THEN <<>> ELSE Insert(Head(l), Sorted(Tail(l)))

\* int(time.time()) read when the last value read was t: the same second
\* or a later one
ClockReads(t) == {u \in {t, t + 1} : u <= MaxClock}

\* the values of n reads of the clock in a row
Stamps(n, t) ==
    {ts \in [1..n -> 0..MaxClock] :
        \A k \in 1..n : ts[k] \in ClockReads(IF k = 1 THEN t ELSE ts[k - 1])}

\* the last value read
LastRead(ts, t) == IF ts = <<>> THEN t ELSE ts[Len(ts)]

\* one record of build_file_manifest (filename and ext, which no operation
\* reads or writes afterwards, are left out)
BuildRow(id, p, t) ==
    [doc_id |-> id, path |-> RelPath(p), status |-> "pending", error |-> "",
     n_chars |-> Missing, n_tokens |-> Missing, preview |-> <<>>,
     updated_at |-> t]

\* build_file_manifest: doc_id counts from 1 in sorted order; record k is
\* stamped with the k-th read of the clock
build_file_manifest(listing, ts) ==
    LET files == Sorted(listing)
    IN [k \in 1..Len(files) |-> BuildRow(k, files[k], ts[k])]

\* df.to_csv: an empty string and a NaN are both written as an empty field
CsvWriteRow(r) ==
    [r EXCEPT !.status = IF @ = NaN THEN "" ELSE @,
              !.error = IF @ = NaN THEN "" ELSE @,
              !.preview = IF @ = NaNText THEN <<>> ELSE @]

\* the columns load_or_create_manifest requires
Required == {"doc_id", "path", "status"}

\* the columns of a manifest built by build_file_manifest
Columns == Required \cup {"error", "n_chars", "n_tokens", "preview", "updated_at"}

\* pd.DataFrame.from_records(records): a DataFrame built from no record has
\* no column
BuiltColumns(d) == IF d = <<>> THEN {} ELSE Columns

\* df.to_csv of a frame with the rows d and the columns cols: the header,
\* which a frame without columns does not have, and the rows
to_csv(d, cols) ==
    [exists |-> TRUE,
     cols |-> cols,
     rows |-> [k \in 1..Len(d) |-> CsvWriteRow(d[k])]]

\* a status field of which only the first characters were written
CutStatus(st) ==
    IF st = "pending" THEN "pend"
    ELSE IF st = "done" THEN "do"
    ELSE IF st = "failed" THEN "fail"
    ELSE st

\* a row of the file that ends before, inside or after its status field:
\* the fields after the cut are missing
CutRow(r, st) ==
    [r EXCEPT !.status = st, !.error = "", !.n_chars = Missing, !.n_tokens = Missing,
              !.preview = <<>>, !.updated_at = Missing]

\* df.to_csv writes the file in place: it is opened for writing, which
\* empties it, then the header and the rows are written in order.  A write
\* that is cut short leaves an empty file, or the header and the first
\* rows, the last of them whole or cut: cut before its status field, inside
\* it, or after it with the later fields lost.
TornCsv(d, cols) ==
    {[exists |-> TRUE,
      cols |-> IF k < 0 THEN {} ELSE cols,
      rows |-> [j \in 1..k |-> CsvWriteRow(d[j])]] : k \in (-1)..(Len(d) - 1)}
    \cup
    UNION {{[exists |-> TRUE,
             cols |-> cols,
             rows |-> [j \in 1..k |-> IF j < k THEN CsvWriteRow(d[j])
                                       ELSE CutRow(CsvWriteRow(d[j]), st)]] :
               st \in {"", CutStatus(CsvWriteRow(d[k]).status),
                       CsvWriteRow(d[k]).status}} : k \in 1..Len(d)}

\* pd.read_csv: an empty field is read as NaN
CsvReadRow(r) ==
    [r EXCEPT !.status = IF @ = "" THEN NaN ELSE @,
              !.error = IF @ = "" THEN NaN ELSE @,
              !.preview = IF @ = <<>> THEN NaNText ELSE @]

read_csv(file) == [k \in 1..Len(file.rows) |-> CsvReadRow(file.rows[k])]

\* json.dumps({"doc_id": ..., "path": ..., "tokens": ...}) + "\n"
JsonLine(row, tokens) == [doc_id |-> row.doc_id, path |-> row.path, tokens |-> tokens]

\* ------------------------------------------------------------------------
\* Steps of the loop body of process_manifest_to_jsonl
\* ------------------------------------------------------------------------
\* every row is taken
SelectedAny(row, sts) == TRUE

\* only pending rows are taken
SelectedPendingOnly(row, sts) == row.status = "pending" /\ "pending" \in sts

\* if status not in statuses_to_process: continue
Selected(row, sts) == row.status \in sts

\* a failure that also wipes the fields of an earlier success
MarkFailedReset(row, err, t) ==
    [row EXCEPT !.status = "failed", !.error = err, !.updated_at = t,
                !.n_chars = Missing, !.n_tokens = Missing, !.preview = <<>>]

\* the file-not-found branch and the except branch
MarkFailed(row, err, t) ==
    [row EXCEPT !.status = "failed", !.error = err, !.updated_at = t]

\* the success branch, 4) of the loop body
MarkDone(row, text, tokens, t) ==
    [row EXCEPT !.status = "done", !.error = "", !.n_chars = Len(text),
                !.n_tokens = Len(tokens), !.preview = Preview(text),
                !.updated_at = t]

\* if processed % save_every == 0 (save_every > 0)
SaveDue(n, every) == n % every = 0

\* a handle opened for writing: the file holds what this handle wrote
TruncatingClose(file, buffer) == buffer

\* leaving the with block: the handle is closed, its buffer reaches the file
CloseJsonl(file, buffer) == file \o buffer

\* ------------------------------------------------------------------------
\* State
\* ------------------------------------------------------------------------
VARIABLES
    present,      \* ids of the files that exist under root_dir
    manifest_csv, \* the manifest file: [exists, rows]
    jsonl,        \* lines of the tokens file that reached the file
    statuses_to_process, \* argument of every call of the behaviour
    save_every,          \* argument of every call of the behaviour
    tokfail,      \* the tokenize_text_fn of the run raises on every non-empty text
    pc,           \* position of the process: idle, loop, save, final, exit
    result,       \* how the run ended: none, returned, raised, interrupted,
                  \* killed, setup_error
    df,           \* the DataFrame of the run: its rows
    df_columns,   \* the DataFrame of the run: its columns
    i,            \* position of the for loop over df.iterrows()
    processed,    \* the counter processed
    buf,          \* lines written to the open handle f_jsonl, not yet flushed
    now,          \* the last value int(time.time()) gave
    runs,         \* number of calls made
    df0,          \* history: df as loaded at the start of the run
    csv0,         \* history: rows of the manifest file at the start of the loop
    len0,         \* history: number of lines of the tokens file at the start
    called,       \* history: rows whose file was read and handed to the
                  \* tokenizer in this run
    stable,       \* history: the last run returned normally with the default
                  \* statuses and the files have not changed since
    rerun,        \* history: this run started in a stable state with the
                  \* default statuses and the tokenizer of the last run
    resumed,      \* history: the last halted run had save_every = 1 and had
                  \* completed this many loop iterations (-1: no such run)
    call,         \* a call of a function of libs/preprocess.py or
                  \* libs/gsheet_io.py, or of a tokenizer adapter: its arguments
    ret           \* what that call returned or raised

\* the files of the program
disk == <<present, manifest_csv, jsonl>>

\* no library call is under way
NoCall == [fn |-> "none"]

NoRet == [kind |-> "none"]

\* the arguments of the calls
args == <<statuses_to_process, save_every, call, ret>>

\* the memory of the running call
mem == <<df, df_columns, i, processed, buf>>

\* the history of the running call
hist == <<df0, csv0, len0, called, rerun>>

vars == <<disk, args, tokfail, pc, result, mem, now, runs, hist, stable, resumed>>

\* ------------------------------------------------------------------------
\* Initial state: the directory holds every file, there is no manifest and
\* no tokens file; the caller has chosen the arguments of the calls
\* ------------------------------------------------------------------------
Init ==
    /\ present \in {FileIds, {}}
    /\ manifest_csv = [exists |-> FALSE, cols |-> {}, rows |-> <<>>]
    /\ jsonl = <<>>
    /\ statuses_to_process \in StatusChoices
    /\ save_every \in SaveEveryValues
    /\ tokfail = FALSE
    /\ pc = "idle"
    /\ result = "none"
    /\ df = <<>>
    /\ df_columns = {}
    /\ i = 0
    /\ processed = 0
    /\ buf = <<>>
    /\ now = 0
    /\ runs = 0
    /\ df0 = <<>>
    /\ csv0 = <<>>
    /\ len0 = 0
    /\ called = {}
    /\ stable = FALSE
    /\ rerun = FALSE
    /\ resumed = -1
    /\ call = NoCall
    /\ ret = NoRet

\* ------------------------------------------------------------------------
\* The environment: between two calls the volatile files appear and
\* disappear
\* ------------------------------------------------------------------------
FileAppears(p) ==
    /\ pc = "idle"
    /\ runs < MaxRuns
    /\ p \notin present
    /\ present' = present \cup {p}
    /\ stable' = FALSE
    /\ UNCHANGED <<manifest_csv, jsonl, args, tokfail, pc, result, mem, now,
                   runs, hist, resumed>>

FileDisappears(p) ==
    /\ pc = "idle"
    /\ runs < MaxRuns
    /\ p \in present
    /\ present' = present \ {p}
    /\ stable' = FALSE
    /\ UNCHANGED <<manifest_csv, jsonl, args, tokfail, pc, result, mem, now,
                   runs, hist, resumed>>

\* Between two calls somebody edits the manifest file and removes one of
\* the required columns
ColumnRemoved(c) ==
    /\ pc = "idle"
    /\ runs < MaxRuns
    /\ manifest_csv.exists
    /\ Required \subseteq manifest_csv.cols
    /\ manifest_csv' = [manifest_csv EXCEPT !.cols = @ \ {c}]
    /\ stable' = FALSE
    /\ UNCHANGED <<present, jsonl, args, tokfail, pc, result, mem, now, runs,
                   hist, resumed>>

\* ------------------------------------------------------------------------
\* process_manifest_to_jsonl
\* ------------------------------------------------------------------------
\* load_or_create_manifest: the manifest file when it exists, else a fresh
\* manifest, which is written at once
ReconciledManifest(file, listing, t) == build_file_manifest(listing, t)

\* load_or_create_manifest
load_or_create_manifest(file, listing, ts) ==
    IF file.exists THEN read_csv(file) ELSE build_file_manifest(listing, ts)

\* the columns of the frame load_or_create_manifest returns: those of the
\* header of the file, or those of the frame built
LoadedColumns(file, listing) ==
    IF file.exists THEN file.cols ELSE BuiltColumns(listing)

\* A call of load_or_create_manifest by itself, before any batch run
CreateManifest(listing, ts) ==
    /\ pc = "idle"
    /\ runs = 0
    /\ ~manifest_csv.exists
    /\ manifest_csv' = to_csv(load_or_create_manifest(manifest_csv, listing, ts),
                              LoadedColumns(manifest_csv, listing))
    /\ now' = LastRead(ts, now)
    /\ UNCHANGED <<present, jsonl, args, tokfail, pc, result, mem, runs,
                   hist, stable, resumed>>

\* pd.read_csv raises EmptyDataError on the file an empty DataFrame (one
\* without columns) was written to, and the check of the required columns
\* raises ValueError when one of them is missing
ReadFails(file) == file.exists /\ ~(Required \subseteq file.cols)

\* Setup up to the with statement: the manifest is loaded or created and
\* the tokens file is opened for appending.  tf: the tokenizer passed
\* raises; listing: the order in which rglob yields the files; ts: the
\* values of the clock read for the records when the manifest is built.
Start(tf, listing, ts) ==
    /\ pc = "idle"
    /\ runs < MaxRuns
    /\ ~ReadFails(manifest_csv)
    /\ LET d == load_or_create_manifest(manifest_csv, listing, ts)
       IN /\ df' = d
          /\ df0' = d
          /\ df_columns' = LoadedColumns(manifest_csv, listing)
          /\ manifest_csv' = IF manifest_csv.exists THEN manifest_csv
                              ELSE to_csv(d, df_columns')
          /\ csv0' = manifest_csv'.rows
    /\ now' = IF manifest_csv.exists THEN now ELSE LastRead(ts, now)
    /\ runs' = runs + 1
    /\ tokfail' = tf
    /\ pc' = "loop"
    /\ result' = "none"
    /\ i' = 1
    /\ processed' = 0
    /\ buf' = <<>>
    /\ len0' = Len(jsonl)
    /\ called' = {}
    /\ rerun' = (stable /\ statuses_to_process = DefaultStatuses /\ tf = tokfail)
    /\ UNCHANGED <<present, jsonl, args, stable, resumed>>

\* Setup fails in load_or_create_manifest: nothing is opened or written
StartFails ==
    /\ pc = "idle"
    /\ runs < MaxRuns
    /\ ReadFails(manifest_csv)
    /\ runs' = runs + 1
    /\ pc' = "exit"
    /\ result' = "setup_error"
    /\ stable' = FALSE
    /\ resumed' = -1
    /\ UNCHANGED <<present, manifest_csv, jsonl, args, tokfail, mem, now, hist>>

\* the tokenizer raises on this text
Raises(text) == tokfail /\ text # <<>>

\* One pass of the loop body, up to and including "processed += 1".  The
\* row that iterrows yields is the row of df: no row is written before its
\* own pass.
Visit(t) ==
    /\ pc = "loop"
    /\ i <= Len(df)
    /\ LET row == df[i]
           p == FileOf(row.path)
           text == Content(p)
           tokens == TokenizeText(text)
       IN IF ~Selected(row, statuses_to_process)
          THEN /\ i' = i + 1
               /\ UNCHANGED <<df, processed, buf, pc, called, now>>
          ELSE /\ processed' = processed + 1
               /\ pc' = "save"
               /\ i' = i
               /\ now' = t
               /\ IF p \notin present
                  THEN /\ df' = [df EXCEPT ![i] = MarkFailed(row, NotFoundError(row.path), t)]
                       /\ UNCHANGED <<buf, called>>
                  ELSE IF Raises(text)
                  THEN /\ df' = [df EXCEPT ![i] = MarkFailed(row, TokError, t)]
                       /\ buf' = buf
                       /\ called' = called \cup {i}
                  ELSE /\ df' = [df EXCEPT ![i] = MarkDone(row, text, tokens, t)]
                       /\ buf' = Append(buf, JsonLine(row, tokens))
                       /\ called' = called \cup {i}
    /\ UNCHANGED <<disk, args, tokfail, result, runs, df0, csv0, len0,
                   rerun, stable, resumed, df_columns>>

\* "if processed % save_every == 0: df.to_csv(...)" after a processed row.
\* With save_every = 0 the modulo raises ZeroDivisionError outside the try
\* statement: the with block closes the handle and the call ends there.
PeriodicSave ==
    /\ pc = "save"
    /\ IF save_every = 0
       THEN /\ jsonl' = CloseJsonl(jsonl, buf)
            /\ buf' = <<>>
            /\ pc' = "exit"
            /\ result' = "raised"
            /\ stable' = FALSE
            /\ UNCHANGED <<manifest_csv, i>>
       ELSE /\ manifest_csv' = IF SaveDue(processed, save_every)
                               THEN to_csv(df, df_columns) ELSE manifest_csv
            /\ i' = i + 1
            /\ pc' = "loop"
            /\ UNCHANGED <<jsonl, buf, result, stable>>
    /\ UNCHANGED <<present, args, tokfail, df, df_columns, processed, now,
                   runs, hist, resumed>>

\* The loop is exhausted: the with block closes the handle
LoopEnd ==
    /\ pc = "loop"
    /\ i > Len(df)
    /\ jsonl' = CloseJsonl(jsonl, buf)
    /\ buf' = <<>>
    /\ pc' = "final"
    /\ UNCHANGED <<present, manifest_csv, args, tokfail, result,
                   df, df_columns, i, processed, now, runs, hist, stable, resumed>>

\* The last df.to_csv and the return
FinalSave ==
    /\ pc = "final"
    /\ manifest_csv' = to_csv(df, df_columns)
    /\ pc' = "exit"
    /\ result' = "returned"
    /\ stable' = (statuses_to_process = DefaultStatuses)
    /\ UNCHANGED <<present, jsonl, args, tokfail, mem, now, runs,
                   hist, resumed>>

\* number of loop iterations a halted run with save_every = 1 had completed
Completed == IF save_every = 1 THEN i - 1 ELSE -1

\* the call is at a df.to_csv of the manifest
InWrite == pc = "final" \/ (pc = "save" /\ save_every # 0 /\ SaveDue(processed, save_every))

\* the manifest file a halt can leave: the file as it is, or, when the halt
\* falls inside df.to_csv, a file cut short; a halt in the last df.to_csv
\* can also come when the file is complete and the call has not returned.
\* (After a save of the loop the complete file is the one of the next
\* position of the loop.)
HaltedManifest ==
    {manifest_csv}
        \cup (IF InWrite THEN TornCsv(df, df_columns) ELSE {})
        \cup (IF pc = "final" THEN {to_csv(df, df_columns)} ELSE {})

\* The process is killed: its memory is lost, and of the lines written to
\* the handle only those the buffer had already passed on (the first n,
\* taken as whole lines) are in the file; file is the manifest file it
\* leaves
Kill(n, file) ==
    /\ pc \in {"loop", "save", "final"}
    /\ file \in HaltedManifest
    /\ manifest_csv' = file
    /\ jsonl' = jsonl \o SubSeq(buf, 1, n)
    /\ pc' = "exit"
    /\ result' = "killed"
    /\ df' = <<>>
    /\ df_columns' = {}
    /\ i' = 0
    /\ processed' = 0
    /\ buf' = <<>>
    /\ df0' = <<>>
    /\ csv0' = <<>>
    /\ len0' = 0
    /\ called' = {}
    /\ rerun' = FALSE
    /\ stable' = FALSE
    /\ resumed' = Completed
    /\ UNCHANGED <<present, args, tokfail, now, runs>>

\* KeyboardInterrupt, which is not an Exception and so is caught by no
\* except clause: the with block closes the handle, the last to_csv is not
\* reached.  The frame df is what the call leaves behind in memory; file
\* is the manifest file it leaves.
Interrupt(file) ==
    /\ pc \in {"loop", "save", "final"}
    /\ file \in HaltedManifest
    /\ manifest_csv' = file
    /\ jsonl' = CloseJsonl(jsonl, buf)
    /\ buf' = <<>>
    /\ pc' = "exit"
    /\ result' = "interrupted"
    /\ i' = 0
    /\ processed' = 0
    /\ df0' = <<>>
    /\ csv0' = <<>>
    /\ len0' = 0
    /\ called' = {}
    /\ rerun' = FALSE
    /\ stable' = FALSE
    /\ resumed' = Completed
    /\ UNCHANGED <<present, args, tokfail, df, df_columns, now, runs>>

\* the order in which a row is updated: lines 275-280 on success, lines
\* 238-240 and 283-285 on failure
UpdateOrder(success) ==
    IF success THEN <<"status", "error", "n_chars", "n_tokens", "preview", "updated_at">>
    ELSE <<"status", "error", "updated_at">>

\* the row after the first m assignments of its update
PartlyUpdated(row, target, order, m) ==
    [f \in DOMAIN row |-> IF \E n \in 1..m : order[n] = f THEN target[f] ELSE row[f]]

\* KeyboardInterrupt inside the pass of a selected row, after the line of
\* the row was appended (on success) and after the first m assignments of
\* the row update: the handle is closed with the line in the file, the row
\* is partly updated in memory, no save follows
InterruptInVisit(m) ==
    /\ pc = "loop"
    /\ i <= Len(df)
    /\ Selected(df[i], statuses_to_process)
    /\ LET row == df[i]
           p == FileOf(row.path)
           text == Content(p)
           tokens == TokenizeText(text)
           success == p \in present /\ ~Raises(text)
           target == IF p \notin present THEN MarkFailed(row, NotFoundError(row.path), now)
                     ELSE IF Raises(text) THEN MarkFailed(row, TokError, now)
                     ELSE MarkDone(row, text, tokens, now)
       IN /\ m < Len(UpdateOrder(success))
          /\ df' = [df EXCEPT ![i] = PartlyUpdated(row, target, UpdateOrder(success), m)]
          /\ jsonl' = CloseJsonl(jsonl, IF success THEN Append(buf, JsonLine(row, tokens))
                                        ELSE buf)
    /\ buf' = <<>>
    /\ pc' = "exit"
    /\ result' = "interrupted"
    /\ i' = 0
    /\ processed' = 0
    /\ df0' = <<>>
    /\ csv0' = <<>>
    /\ len0' = 0
    /\ called' = {}
    /\ rerun' = FALSE
    /\ stable' = FALSE
    /\ resumed' = Completed
    /\ UNCHANGED <<present, manifest_csv, args, tokfail, df_columns, now, runs>>

\* the manifest file a halt in the setup of a call that found none can
\* leave: none, when the halt comes before the file is opened, or a file
\* cut short
SetupManifest(listing, ts) ==
    {manifest_csv} \cup TornCsv(build_file_manifest(listing, ts), BuiltColumns(listing))

\* The call is halted (killed, or interrupted from the keyboard) in
\* load_or_create_manifest, before or inside the df.to_csv that writes a
\* manifest that did not exist; nothing else was opened
KillInSetup(listing, ts, file) ==
    /\ pc = "idle"
    /\ runs < MaxRuns
    /\ ~manifest_csv.exists
    /\ file \in SetupManifest(listing, ts)
    /\ manifest_csv' = file
    /\ now' = LastRead(ts, now)
    /\ runs' = runs + 1
    /\ pc' = "exit"
    /\ result' = "killed"
    /\ stable' = FALSE
    /\ resumed' = -1
    /\ UNCHANGED <<present, jsonl, args, tokfail, mem, hist>>

\* The caller drops what the call gave; another call may follow
Discard ==
    /\ pc = "exit"
    /\ runs < MaxRuns
    /\ pc' = "idle"
    /\ result' = "none"
    /\ df' = <<>>
    /\ df_columns' = {}
    /\ i' = 0
    /\ processed' = 0
    /\ buf' = <<>>
    /\ df0' = <<>>
    /\ csv0' = <<>>
    /\ len0' = 0
    /\ called' = {}
    /\ rerun' = FALSE
    /\ resumed' = IF result \in {"killed", "interrupted"} THEN resumed ELSE -1
    /\ UNCHANGED <<disk, args, tokfail, now, runs, stable>>

\* a step of the running call
RunStep == (\E t \in ClockReads(now) : Visit(t)) \/ PeriodicSave \/ LoopEnd \/ FinalSave

Next ==
    \/ \E p \in Volatile : FileAppears(p)
    \/ \E p \in Volatile : FileDisappears(p)
    \/ \E c \in Required : ColumnRemoved(c)
    \/ \E listing \in Listings(present) :
          \E ts \in Stamps(Len(listing), now) : CreateManifest(listing, ts)
    \/ \E tf \in BOOLEAN, listing \in Listings(present) :
          \E ts \in Stamps(Len(listing), now) : Start(tf, listing, ts)
    \/ StartFails
    \/ \E t \in ClockReads(now) : Visit(t)
    \/ PeriodicSave
    \/ LoopEnd
    \/ FinalSave
    \/ \E n \in 0..Len(buf), file \in HaltedManifest : Kill(n, file)
    \/ \E file \in HaltedManifest : Interrupt(file)
    \/ \E m \in 0..5 : InterruptInVisit(m)
    \/ \E listing \in Listings(present) :
          \E ts \in Stamps(Len(listing), now) :
              \E file \in SetupManifest(listing, ts) :
                  KillInSetup(listing, ts, file)
    \/ Discard

Spec == Init /\ [][Next]_vars

\* The interpreter keeps executing a started call until it exits.
SpecFair == Spec /\ WF_vars(RunStep)

\* ------------------------------------------------------------------------
\* build_file_manifest by itself: repeated builds over directory snapshots
\* that may be modified between two builds
\* ------------------------------------------------------------------------
InitBuild ==
    /\ present \in SUBSET FileIds
    /\ manifest_csv = [exists |-> FALSE, cols |-> {}, rows |-> <<>>]
    /\ jsonl = <<>>
    /\ statuses_to_process = DefaultStatuses
    /\ save_every = 1
    /\ tokfail = FALSE
    /\ pc = "idle"
    /\ result = "none"
    /\ df = <<>>
    /\ df_columns = {}
    /\ i = 0
    /\ processed = 0
    /\ buf = <<>>
    /\ now = 0
    /\ runs = 0
    /\ df0 = <<>>
    /\ csv0 = <<>>
    /\ len0 = 0
    /\ called = {}
    /\ stable = FALSE
    /\ rerun = FALSE
    /\ resumed = -1
    /\ call = NoCall
    /\ ret = NoRet

\* df = build_file_manifest(root_dir); df0 keeps the previous build, rerun
\* tells whether the snapshot is the one of the previous build
BuildManifest(listing, ts) ==
    /\ runs < MaxRuns
    /\ runs' = runs + 1
    /\ now' = LastRead(ts, now)
    /\ df0' = df
    /\ df' = build_file_manifest(listing, ts)
    /\ df_columns' = BuiltColumns(listing)
    /\ rerun' = stable
    /\ stable' = TRUE
    /\ UNCHANGED <<disk, args, tokfail, pc, result, i, processed, buf,
                   csv0, len0, called, resumed>>

NextBuild ==
    \/ \E p \in FileIds : FileAppears(p)
    \/ \E p \in FileIds : FileDisappears(p)
    \/ \E listing \in Listings(present) :
          \E ts \in Stamps(Len(listing), now) : BuildManifest(listing, ts)

SpecBuild == InitBuild /\ [][NextBuild]_vars

\* ------------------------------------------------------------------------
\* libs/preprocess.py: filter_tokens_df
\* ------------------------------------------------------------------------
\* part-of-speech categories (noun is 名詞, particle is 助詞)
Pos == {"noun", "particle", "verb"}

Words == {"neko", "ga"}

\* an optional argument: None, or a collection of strings
NoneArg == [given |-> FALSE, val |-> {}]

OptSets(S) == {NoneArg} \cup {[given |-> TRUE, val |-> v] : v \in SUBSET S}

\* "x if x else None": an empty collection counts as None
Truthy(opt) == opt.given /\ opt.val # {}

\* token tables: sequences of rows with the columns word and pos
TokenRows == [word : Words, pos : Pos]

RECURSIVE SeqsUpTo(_, _)
SeqsUpTo(S, n) ==
    IF n = 0 THEN {<<>>}
    ELSE SeqsUpTo(S, n - 1) \cup {Append(q, x) : q \in {r \in SeqsUpTo(S, n - 1) : Len(r) = n - 1}, x \in S}

TokenTables == SeqsUpTo(TokenRows, MaxRows)

_compile_pos_filter(pos_keep, pos_exclude, strict) ==
    LET keep_set == IF Truthy(pos_keep) THEN pos_keep ELSE NoneArg
        excl_set == IF Truthy(pos_exclude) THEN pos_exclude ELSE NoneArg
    IN [raised |-> /\ strict
                   /\ Truthy(keep_set)
                   /\ Truthy(excl_set)
                   /\ keep_set.val \cap excl_set.val = {},
        keep_set |-> keep_set,
        excl_set |-> excl_set]

filter_tokens_df(tok_df, pos_keep, pos_exclude, stopwords, strict) ==
    LET c == _compile_pos_filter(pos_keep, pos_exclude, strict)
        InKeep(r) == r.pos \in c.keep_set.val
        NotExcluded(r) == r.pos \notin c.excl_set.val
        NotStopword(r) == r.word \notin stopwords.val
        s1 == IF c.keep_set.given THEN SelectSeq(tok_df, InKeep) ELSE tok_df
        s2 == IF c.excl_set.given THEN SelectSeq(s1, NotExcluded) ELSE s1
        s3 == IF stopwords.given /\ s2 # <<>> /\ stopwords.val # {}
              THEN SelectSeq(s2, NotStopword) ELSE s2
    IN IF c.raised THEN [kind |-> "ValueError"] ELSE [kind |-> "rows", rows |-> s3]

FilterCalls ==
    [fn : {"filter_tokens_df"}, df : TokenTables, pos_keep : OptSets(Pos),
     pos_exclude : OptSets(Pos), stopwords : {NoneArg} \cup OptSets({"ga"}),
     strict : BOOLEAN]

\* ------------------------------------------------------------------------
\* libs/preprocess.py: tokenize_df with an injected tokenize_text_fn
\* ------------------------------------------------------------------------
\* the texts of the text column: a blank one and a sentence
DocTexts == {"", "neko ga"}

\* tokenize_text_fn(text): the (word, pos) records of a text
Analyze(text) ==
    IF text = "" THEN <<>>
    ELSE <<[word |-> "neko", pos |-> "noun"], [word |-> "ga", pos |-> "particle"]>>

\* records: for every row in order, the tokens of its text with its id
RECURSIVE Records(_, _)
Records(texts, k) ==
    IF k > Len(texts) THEN <<>>
    ELSE [n \in 1..Len(Analyze(texts[k])) |->
             [doc |-> k, word |-> Analyze(texts[k])[n].word,
              pos |-> Analyze(texts[k])[n].pos]]
         \o Records(texts, k + 1)

\* tokenize_df; invoked counts the calls of tokenize_text_fn made before
\* the function returns or raises
tokenize_df(has_id, has_text, texts, pos_keep, pos_exclude) ==
    IF ~has_id \/ ~has_text
    THEN [kind |-> "KeyError", rows |-> <<>>, invoked |-> 0]
    ELSE LET out == Records(texts, 1)
             f == filter_tokens_df(out, pos_keep, pos_exclude, NoneArg, TRUE)
         IN IF out = <<>>
            THEN [kind |-> "rows", rows |-> <<>>, invoked |-> Len(texts)]
            ELSE [kind |-> f.kind,
                  rows |-> IF f.kind = "rows" THEN f.rows ELSE <<>>,
                  invoked |-> Len(texts)]

TokenizeDfCalls ==
    [fn : {"tokenize_df"}, has_id : BOOLEAN, has_text : BOOLEAN,
     texts : SeqsUpTo(DocTexts, MaxDocs), pos_keep : OptSets(Pos),
     pos_exclude : OptSets(Pos)]

\* ------------------------------------------------------------------------
\* libs/preprocess.py: tokenize_text_janome and tokenize_text_sudachi
\* ------------------------------------------------------------------------
\* characters that str.strip() removes
Whitespace == {" ", "\n"}

\* the text argument: None, or a string
AdapterTexts ==
    {[none |-> TRUE, chars |-> <<>>]}
        \cup {[none |-> FALSE, chars |-> c] : c \in SeqsUpTo(Whitespace \cup {"a"}, MaxText)}

\* the string as it is, leading and trailing whitespace kept
NoStrip(chars) == chars

\* str(text).strip()
RECURSIVE Strip(_)
Strip(chars) ==
    IF chars = <<>> THEN <<>>
    ELSE IF Head(chars) \in Whitespace THEN Strip(Tail(chars))
    ELSE IF chars[Len(chars)] \in Whitespace THEN Strip(SubSeq(chars, 1, Len(chars) - 1))
    ELSE chars

\* tokenizer.tokenize(s) of the analyzer: one morpheme per letter, with its
\* surface, dictionary and normalized form
Morphemes(chars) ==
    LET letters == SelectSeq(chars, LAMBDA c : c \notin Whitespace)
    IN [n \in 1..Len(letters) |->
           [surface |-> letters[n], dictionary |-> "A", normalized |-> "a~",
            pos |-> "noun"]]

\* the word_form argument: None, valid names in any case, an invalid name
NoWordForm == "<None>"

WordForms == {NoWordForm, "dictionary", "surface", "Norm", "bogus"}

\* str(word_form).lower()
Lower(wf) == IF wf = "Norm" THEN "norm" ELSE wf

\* tokenize_text_janome; analyzer counts the calls of tokenizer.tokenize.
\* has_tokenizer: the tokenizer passed is a Janome tokenizer, not None.
tokenize_text_janome(text, has_tokenizer, use_base_form) ==
    IF text.none \/ Strip(text.chars) = <<>>
    THEN [kind |-> "tokens", tokens |-> <<>>, analyzer |-> 0]
    ELSE IF ~has_tokenizer
    THEN [kind |-> "AttributeError", tokens |-> <<>>, analyzer |-> 0]
    ELSE LET ms == Morphemes(Strip(text.chars))
         IN [kind |-> "tokens",
             tokens |-> [n \in 1..Len(ms) |->
                            [word |-> IF use_base_form THEN ms[n].dictionary
                                      ELSE ms[n].surface,
                             pos |-> ms[n].pos]],
             analyzer |-> 1]

\* tokenize_text_sudachi; installed: sudachipy can be imported
tokenize_text_sudachi(text, installed, word_form, use_base_form) ==
    IF text.none \/ Strip(text.chars) = <<>>
    THEN [kind |-> "tokens", tokens |-> <<>>, analyzer |-> 0]
    ELSE IF ~installed
    THEN [kind |-> "ImportError", tokens |-> <<>>, analyzer |-> 0]
    ELSE LET ms == Morphemes(Strip(text.chars))
             wf == Lower(word_form)
             Word(m) ==
                 IF word_form = NoWordForm
                 THEN (IF use_base_form THEN m.dictionary ELSE m.surface)
                 ELSE IF wf \in {"dictionary", "dict", "base", "lemma"} THEN m.dictionary
                 ELSE IF wf \in {"surface", "orig", "original"} THEN m.surface
                 ELSE m.normalized
             valid == \/ word_form = NoWordForm
                      \/ wf \in {"dictionary", "dict", "base", "lemma", "surface", "orig",
                                  "original", "normalized", "normal", "norm"}
         IN IF ~valid
            THEN [kind |-> "ValueError", tokens |-> <<>>, analyzer |-> 1]
            ELSE [kind |-> "tokens",
                  tokens |-> [n \in 1..Len(ms) |-> [word |-> Word(ms[n]), pos |-> ms[n].pos]],
                  analyzer |-> 1]

TokenizeTextCalls ==
    [fn : {"tokenize_text_janome", "tokenize_text_sudachi"}, text : AdapterTexts,
     installed : BOOLEAN, word_form : WordForms, use_base_form : BOOLEAN]

TokenizeText1 ==
    /\ call.fn \in {"tokenize_text_janome", "tokenize_text_sudachi"}
    /\ ret = NoRet
    /\ ret' = IF call.fn = "tokenize_text_janome"
              THEN tokenize_text_janome(call.text, call.installed, call.use_base_form)
              ELSE tokenize_text_sudachi(call.text, call.installed, call.word_form,
                                         call.use_base_form)
    /\ UNCHANGED <<disk, statuses_to_process, save_every, tokfail, pc, result, mem,
                   now, runs, hist, stable, resumed, call>>

\* ------------------------------------------------------------------------
\* libs/corpus_pass1.py: the tokenizer adapters process_manifest_to_jsonl
\* builds when no tokenize_text_fn is passed
\* ------------------------------------------------------------------------
\* keyword parameters of tokenize_text_sudachi
SudachiParams == {"tokenizer", "split_mode", "word_form", "use_base_form", "extra_col"}

\* keyword parameters of tokenize_df
TokenizeDfParams ==
    {"id_col", "text_col", "engine", "tokenizer", "tokenize_text_fn", "use_base_form",
     "pos_keep", "pos_exclude", "stopwords", "extra_col"}

\* keys of the tokenize_kwargs the caller may pass
UserKwargs == SUBSET {"split_mode", "word_form", "pos_keep"}

\* tokenize_kwargs after the two setdefault calls
DefaultedKwargs(user_keys) == user_keys \cup {"extra_col", "extra_info"}

\* keywords the default adapter passes to tokenize_text_sudachi
DefaultAdapterKeywords ==
    {"tokenizer", "split_mode", "dict_type", "word_form", "pos_keep", "stopwords",
     "extra_info"}

\* keywords the compat adapter passes to tokenize_func
CompatAdapterKeywords(user_keys) == {"id_col", "text_col"} \cup DefaultedKwargs(user_keys)

\* Python binds keyword arguments before the body runs: a keyword the
\* function has no parameter for raises TypeError
Accepts(params, keywords) == keywords \subseteq params

\* tokenize_text_fn of the default branch (Sudachi)
default_adapter(text, user_keys) ==
    IF ~Accepts(SudachiParams, DefaultAdapterKeywords)
    THEN [kind |-> "TypeError", tokens |-> <<>>, analyzer |-> 0]
    ELSE tokenize_text_sudachi(text, TRUE,
                               IF "word_form" \in user_keys THEN "surface" ELSE "dictionary",
                               TRUE)

\* tokenize_text_fn of the compat branch with tokenize_func = tokenize_df:
\* a one-row table, the default janome engine, the 'word' column of the
\* result.  A DataFrame built from no record has no 'word' column.
compat_adapter(text, user_keys) ==
    IF ~Accepts(TokenizeDfParams, CompatAdapterKeywords(user_keys))
    THEN [kind |-> "TypeError", tokens |-> <<>>, analyzer |-> 0]
    ELSE LET r == tokenize_text_janome(text, TRUE, TRUE)
         IN IF r.kind = "tokens" /\ r.tokens = <<>>
            THEN [kind |-> "KeyError", tokens |-> <<>>, analyzer |-> r.analyzer]
            ELSE r

AdapterCalls ==
    [fn : {"tokenize_text_fn"}, adapter : {"default", "compat"}, text : AdapterTexts,
     user_keys : UserKwargs]

CallAdapter ==
    /\ call.fn = "tokenize_text_fn"
    /\ ret = NoRet
    /\ ret' = IF call.adapter = "default"
              THEN default_adapter(call.text, call.user_keys)
              ELSE compat_adapter(call.text, call.user_keys)
    /\ UNCHANGED <<disk, statuses_to_process, save_every, tokfail, pc, result, mem,
                   now, runs, hist, stable, resumed, call>>

\* ------------------------------------------------------------------------
\* libs/gsheet_io.py: _make_unique and normalize_for_gsheet
\* A column name is the sequence of its characters.
\* ------------------------------------------------------------------------
Digits == <<"0", "1", "2", "3", "4", "5", "6", "7", "8", "9">>

\* str(k) of a natural number
RECURSIVE Str(_)
Str(k) == IF k < 10 THEN <<Digits[k + 1]>> ELSE Str(k \div 10) \o <<Digits[(k % 10) + 1]>>

\* column names of the input table: empty, blank, plain, and names that
\* look like a generated one
ColumnNames ==
    {<<>>, <<" ">>, <<"a">>, <<"a", "_", "2">>, <<"c", "o", "l", "_", "2">>}

\* the loop of _make_unique from position k on; seen maps a base name to
\* the number of times it was met
RECURSIVE MakeUniqueFrom(_, _, _, _)
MakeUniqueFrom(names, k, seen, out) ==
    IF k > Len(names) THEN out
    ELSE LET base == names[k]
         IN IF base \notin DOMAIN seen
            THEN MakeUniqueFrom(names, k + 1,
                                [x \in DOMAIN seen \cup {base} |->
                                    IF x = base THEN 1 ELSE seen[x]],
                                Append(out, base))
            ELSE MakeUniqueFrom(names, k + 1,
                                [seen EXCEPT ![base] = @ + 1],
                                Append(out, base \o <<"_">> \o Str(seen[base] + 1)))

_make_unique(names) == MakeUniqueFrom(names, 1, <<>>, <<>>)

\* normalize_for_gsheet on a table with a RangeIndex: the column names it
\* gives the result
normalize_for_gsheet(cols) ==
    LET fixed == [n \in 1..Len(cols) |->
                     IF Strip(cols[n]) # <<>> THEN Strip(cols[n])
                     ELSE <<"c", "o", "l", "_">> \o Str(n)]
    IN _make_unique(fixed)

NormalizeCalls == [fn : {"normalize_for_gsheet"}, cols : SeqsUpTo(ColumnNames, MaxCols)]

Normalize ==
    /\ call.fn = "normalize_for_gsheet"
    /\ ret = NoRet
    /\ ret' = [kind |-> "columns", columns |-> normalize_for_gsheet(call.cols)]
    /\ UNCHANGED <<disk, statuses_to_process, save_every, tokfail, pc, result, mem,
                   now, runs, hist, stable, resumed, call>>

\* the state of the batch pipeline while a library function is called
pipeline ==
    <<disk, statuses_to_process, save_every, tokfail, pc, result, mem, now,
      runs, hist, stable, resumed>>

FilterTokens ==
    /\ call.fn = "filter_tokens_df"
    /\ ret = NoRet
    /\ ret' = filter_tokens_df(call.df, call.pos_keep, call.pos_exclude,
                               call.stopwords, call.strict)
    /\ UNCHANGED <<pipeline, call>>

TokenizeDf ==
    /\ call.fn = "tokenize_df"
    /\ ret = NoRet
    /\ ret' = tokenize_df(call.has_id, call.has_text, call.texts,
                          call.pos_keep, call.pos_exclude)
    /\ UNCHANGED <<pipeline, call>>

LibCalls == FilterCalls \cup TokenizeDfCalls \cup TokenizeTextCalls \cup AdapterCalls
                \cup NormalizeCalls

InitLib ==
    /\ present = FileIds
    /\ manifest_csv = [exists |-> FALSE, cols |-> {}, rows |-> <<>>]
    /\ jsonl = <<>>
    /\ statuses_to_process = DefaultStatuses
    /\ save_every = 1
    /\ tokfail = FALSE
    /\ pc = "idle"
    /\ result = "none"
    /\ df = <<>>
    /\ df_columns = {}
    /\ i = 0
    /\ processed = 0
    /\ buf = <<>>
    /\ now = 0
    /\ runs = 0
    /\ df0 = <<>>
    /\ csv0 = <<>>
    /\ len0 = 0
    /\ called = {}
    /\ stable = FALSE
    /\ rerun = FALSE
    /\ resumed = -1
    /\ call \in LibCalls
    /\ ret = NoRet

NextLib ==
    \/ FilterTokens
    \/ TokenizeDf
    \/ TokenizeText1
    \/ CallAdapter
    \/ Normalize

SpecLib == InitLib /\ [][NextLib]_vars

\* ------------------------------------------------------------------------
\* Observations on a run
\* ------------------------------------------------------------------------
InRun == pc \in {"loop", "save", "final"}

Returned == pc = "exit" /\ result = "returned"

\* the lines this run has written so far
NewLines == SubSeq(jsonl, len0 + 1, Len(jsonl)) \o buf

\* number of lines this run has written for a doc_id
LinesFor(id) == Cardinality({n \in 1..Len(NewLines) : NewLines[n].doc_id = id})

\* number of lines of a sequence of lines that carry a doc_id
LinesIn(lines, id) == Cardinality({n \in 1..Len(lines) : lines[n].doc_id = id})

\* an empty cell: the empty string, or the NaN it is read back as
IsEmpty(cell) == cell \in {"", NaN}

\* the row's file exists and the tokenizer accepts its text
Processable(row) ==
    /\ FileOf(row.path) \in present
    /\ ~Raises(Content(FileOf(row.path)))

\* t is a value the clock can have given during the call: not before the
\* stamps the call found, not after the last value read
RunStamp(t) ==
    /\ t <= now
    /\ \A j \in 1..Len(df0) : df0[j].updated_at <= t

\* rows whose state in memory is not in the manifest file
Unsaved == {k \in 1..Len(df) : manifest_csv.rows[k] # CsvWriteRow(df[k])}

\* ------------------------------------------------------------------------
\* Properties
\* ------------------------------------------------------------------------

\* C1: when a run that returned with statuses_to_process = (pending, failed)
\* is followed by a run with the same arguments, the same tokenizer and
\* unchanged files, every row that was done keeps all its fields, in memory
\* and in the manifest file, and the tokens file gets no new line.
C1_Idempotence ==
    (Returned /\ rerun) =>
        /\ \A k \in 1..Len(df0) :
              df0[k].status = "done" =>
                  /\ df[k] = df0[k]
                  /\ manifest_csv.rows[k] = csv0[k]
        /\ Len(jsonl) = len0
        /\ NewLines = <<>>

C1_Witness ==
    /\ Returned
    /\ rerun
    /\ \E k \in 1..Len(df0) : df0[k].status = "done"
    /\ \E k \in 1..Len(df0) :
          df0[k].status = "failed" /\ df[k].updated_at > df0[k].updated_at

\* C6: a row whose status is not in statuses_to_process is not touched by
\* the run: its fields in memory and in the manifest file stay as they
\* were, its file is not read, the tokenizer is not called for it and no
\* line is written for it.
C6_UntouchedRows ==
    \A k \in 1..Len(df0) :
        df0[k].status \notin statuses_to_process =>
            /\ df[k] = df0[k]
            /\ manifest_csv.rows[k] = csv0[k]
            /\ k \notin called
            /\ LinesFor(df0[k].doc_id) = 0

C6_Witness ==
    /\ Returned
    /\ \E k \in 1..Len(df0) : df0[k].status \notin statuses_to_process
    /\ \E k \in 1..Len(df0) : df[k] # df0[k]

\* C2: with save_every = 1 the manifest file holds, at every point at which
\* the run can be halted, exactly the completed loop iterations: the k rows
\* before the loop position as the run left them (done when their file
\* exists and the tokenizer accepts it), the others as they were; a halt
\* (kill or KeyboardInterrupt) leaves the file with every row, the k
\* completed ones as the run left them.  A run
\* started after such a halt leaves the first k rows alone when they are
\* done and begins with a later row, can always take its next step, and
\* when it returns every row whose file exists and whose text the
\* tokenizer accepts is done and no row is pending.
C2_CrashResume ==
    /\ [](/\ (save_every = 1 /\ pc \in {"loop", "save"}) =>
                \A k \in 1..Len(df) :
                    /\ k < i => manifest_csv.rows[k] = CsvWriteRow(df[k])
                    /\ k >= i => manifest_csv.rows[k] = csv0[k]
                    /\ (k < i /\ df0[k].status \in statuses_to_process
                          /\ Processable(df0[k]))
                          => manifest_csv.rows[k].status = "done"
          /\ (resumed >= 0 /\ (InRun \/ Returned) /\ "done" \notin statuses_to_process
                /\ \A j \in 1..Min(resumed, Len(df0)) : df0[j].status = "done") =>
                \A j \in 1..Len(df0) :
                    (df[j] # df0[j] \/ j \in called \/ LinesFor(df0[j].doc_id) > 0)
                        => j > resumed
          /\ (resumed >= 0 /\ InRun) => (ENABLED RunStep /\ i <= Len(df) + 1)
          /\ (resumed >= 0 /\ Returned /\ DefaultStatuses \subseteq statuses_to_process) =>
                \A k \in 1..Len(df) :
                    /\ manifest_csv.rows[k].status # "pending"
                    /\ Processable(df[k]) => manifest_csv.rows[k].status = "done")
    /\ [][RunStep =>
            LET Rank(p, j, n) == IF p = "loop" THEN 2 * j
                                 ELSE IF p = "save" THEN 2 * j + 1
                                 ELSE IF p = "final" THEN 2 * n + 4
                                 ELSE 2 * n + 5
            IN  Rank(pc', i', Len(df')) > Rank(pc, i, Len(df))]_vars
    /\ [][(save_every = 1 /\ InRun /\ pc' = "exit"
             /\ result' \in {"killed", "interrupted"}) =>
            /\ manifest_csv'.exists
            /\ Len(manifest_csv'.rows) = Len(df)
            /\ \A k \in 1..Len(df) :
                  k < i => manifest_csv'.rows[k] = CsvWriteRow(df[k])]_vars
    /\ ((resumed >= 0 /\ InRun) ~> (pc = "exit"))

\* C3: past setup, whatever save_every is and whatever the tokenizer does,
\* a call that is neither killed nor interrupted returns normally and has
\* handled every selected row.
C3_RowFailureNeverAborts ==
    (pc = "exit" /\ result \notin {"killed", "interrupted", "setup_error"}) =>
        /\ result = "returned"
        /\ \A k \in 1..Len(df0) :
              df0[k].status \in statuses_to_process =>
                  df[k].status \in {"done", "failed"} /\ RunStamp(df[k].updated_at)

\* the rows the run has processed so far
ProcessedRows ==
    {k \in 1..Len(df) : /\ Selected(df0[k], statuses_to_process)
                         /\ (k < i \/ (k = i /\ pc = "save"))}

\* the processed rows whose state in memory is not in a manifest file
LostRows(file) ==
    {k \in ProcessedRows : \/ k > Len(file.rows)
                            \/ file.rows[k] # CsvWriteRow(df[k])}

\* C4: during a run with save_every = s >= 1 at most s - 1 processed rows
\* are missing from the manifest file, and each of them is pending or
\* failed there; the same holds of the manifest file that a halt (kill or
\* KeyboardInterrupt) of the run leaves behind.
C4_AtMostSMinusOne ==
    /\ []((InRun /\ save_every >= 1) =>
            /\ Cardinality(Unsaved) <= save_every - 1
            /\ \A k \in Unsaved : manifest_csv.rows[k].status \in {"pending", "failed"})
    /\ [][(InRun /\ save_every >= 1 /\ pc' = "exit"
             /\ result' \in {"killed", "interrupted"}) =>
            /\ Cardinality(LostRows(manifest_csv')) <= save_every - 1
            /\ \A k \in LostRows(manifest_csv') :
                  /\ k <= Len(manifest_csv'.rows)
                  /\ manifest_csv'.rows[k].status \in {"pending", "failed"}]_vars

\* The bound of C4 with one more row allowed while a processed row waits
\* for its save check, and the status of the start of the run in place of
\* "pending or failed": it holds between the manifest writes, and not of
\* the file that a halt inside a manifest write leaves behind.
C4_LossBetweenWrites ==
    (InRun /\ save_every >= 1) =>
        /\ Cardinality(Unsaved) <= IF pc = "save" THEN save_every ELSE save_every - 1
        /\ \A k \in Unsaved :
              /\ manifest_csv.rows[k].status = df0[k].status
              /\ manifest_csv.rows[k].status \in statuses_to_process

\* The same bound for the manifest file that a halt of the run leaves
\* behind: violated by a halt inside a manifest write.
C4_LossAtHalt ==
    [][(InRun /\ save_every >= 1 /\ pc' = "exit"
          /\ result' \in {"killed", "interrupted"}) =>
         /\ Cardinality(LostRows(manifest_csv')) <= save_every
         /\ \A k \in LostRows(manifest_csv') :
               /\ k <= Len(manifest_csv'.rows)
               /\ manifest_csv'.rows[k].status = df0[k].status]_vars

\* C5: on every exit of a call that got past setup, error exits included,
\* the manifest file equals the manifest in memory and the handle of the
\* tokens file is closed.
C5_FinalPersistence ==
    (pc = "exit" /\ result \in {"returned", "raised", "interrupted"}) =>
        /\ manifest_csv = to_csv(df, df_columns)
        /\ buf = <<>>

\* C7: when a call returns, every selected row whose file was missing is
\* failed with a non-empty error, in memory and in the manifest file, and
\* has no line in the tokens file from this call; every row that was failed
\* when the call started, with "failed" among statuses_to_process, its file
\* present and its text accepted by the tokenizer, is done with an empty
\* error and has exactly one new line.
C7_MissingFileRetry ==
    Returned =>
        \A k \in 1..Len(df0) :
            /\ (df0[k].status \in statuses_to_process
                  /\ FileOf(df0[k].path) \notin present) =>
                  /\ df[k].status = "failed"
                  /\ ~IsEmpty(df[k].error)
                  /\ manifest_csv.rows[k].status = "failed"
                  /\ ~IsEmpty(manifest_csv.rows[k].error)
                  /\ LinesFor(df0[k].doc_id) = 0
            /\ (df0[k].status = "failed" /\ "failed" \in statuses_to_process
                  /\ FileOf(df0[k].path) \in present
                  /\ ~Raises(Content(FileOf(df0[k].path)))) =>
                  /\ df[k].status = "done"
                  /\ IsEmpty(df[k].error)
                  /\ manifest_csv.rows[k].status = "done"
                  /\ IsEmpty(manifest_csv.rows[k].error)
                  /\ LinesFor(df0[k].doc_id) = 1

C7_Witness ==
    /\ Returned
    /\ \E k \in 1..Len(df0) :
          /\ df0[k].status = "failed"
          /\ df0[k].error = NotFoundError(df0[k].path)
          /\ FileOf(df0[k].path) \in present
          /\ df[k].status = "done"
          /\ LinesFor(df0[k].doc_id) = 1

\* C8: no call changes the doc_id or the path of a row, in memory or in the
\* manifest file; a row that a call has marked failed differs from the row
\* as it was loaded only in status, error ('<kind>: <message>' of the
\* exception, or the file-not-found text) and updated_at, which is a
\* value of the clock during the call, so n_chars, n_tokens and preview
\* are the ones it had before the attempt.
C8_FailureFrame ==
    \A k \in 1..Len(df0) :
        /\ df[k].doc_id = df0[k].doc_id
        /\ df[k].path = df0[k].path
        /\ manifest_csv.rows[k].doc_id = csv0[k].doc_id
        /\ manifest_csv.rows[k].path = csv0[k].path
        /\ (df[k] # df0[k] /\ df[k].status = "failed") =>
              /\ df[k] = [df0[k] EXCEPT
                             !.status = "failed",
                             !.error = IF k \in called
                                       THEN "RuntimeError: tokenizer failed"
                                       ELSE "file not found: " \o df0[k].path,
                             !.updated_at = df[k].updated_at]
              /\ RunStamp(df[k].updated_at)

C8_Witness ==
    /\ Returned
    /\ \E k \in called :
          /\ df0[k].status = "done"
          /\ df0[k].n_chars # Missing
          /\ df[k].status = "failed"
          /\ df[k].n_chars = df0[k].n_chars
          /\ df[k].preview = df0[k].preview
          /\ df[k].updated_at # df0[k].updated_at

\* C9: every row of the manifest, in memory and in the manifest file, has a
\* status among pending, done, failed and an empty error unless it is
\* failed; every row of a manifest that has just been built is pending.
C9_RowInvariant ==
    /\ \A k \in 1..Len(df) :
          /\ df[k].status \in {"pending", "done", "failed"}
          /\ df[k].status # "failed" => IsEmpty(df[k].error)
    /\ \A k \in 1..Len(manifest_csv.rows) :
          /\ manifest_csv.rows[k].status \in {"pending", "done", "failed"}
          /\ manifest_csv.rows[k].status # "failed" => IsEmpty(manifest_csv.rows[k].error)
    /\ runs = 0 =>
          \A k \in 1..Len(manifest_csv.rows) : manifest_csv.rows[k].status = "pending"
    /\ (runs = 1 /\ pc = "loop" /\ i = 1) =>
          \A k \in 1..Len(df) : df[k].status = "pending"

\* C10: a manifest built by build_file_manifest has one row per file of the
\* snapshot, the rows are in strictly ascending order of path, row k has
\* doc_id k, every row is pending with an empty error, and a build over the
\* snapshot of the previous build gives the same doc_id and path in every
\* row, whatever the order in which the directory was listed.
C10_DeterministicDocIds ==
    runs >= 1 =>
        /\ stable =>
              /\ Len(df) = Cardinality(present)
              /\ {FileOf(df[k].path) : k \in 1..Len(df)} = present
        /\ \A k \in 1..Len(df) :
              /\ df[k].doc_id = k
              /\ df[k].status = "pending"
              /\ df[k].error = ""
        /\ \A a, b \in 1..Len(df) :
              a < b => FileOf(df[a].path) < FileOf(df[b].path)
        /\ rerun =>
              /\ Len(df) = Len(df0)
              /\ \A k \in 1..Len(df) :
                    df[k].doc_id = df0[k].doc_id /\ df[k].path = df0[k].path

C10_Witness ==
    /\ rerun
    /\ stable
    /\ Len(df) >= 2
    /\ Len(df0) >= 2
    /\ df[1].updated_at # df0[1].updated_at

\* C11: a manifest file that exists keeps its rows, their doc_id and their
\* path whatever happens to the directory and whatever a call does that is
\* not halted inside a write of the manifest; a call that finds a manifest
\* file with the required columns works on exactly the rows read from it
\* and leaves the file as it is; a call that finds one without them fails
\* and leaves the file, the tokens file and the memory as they are; a call
\* that finds no manifest file builds one row per file of the directory and
\* writes it at once; a run writes lines only for rows of its manifest.
C11_ManifestIsSourceOfTruth ==
    /\ [][(manifest_csv.exists
             /\ ~(InWrite /\ pc' = "exit" /\ result' \in {"killed", "interrupted"})) =>
            /\ manifest_csv'.exists
            /\ Len(manifest_csv'.rows) = Len(manifest_csv.rows)
            /\ \A k \in 1..Len(manifest_csv.rows) :
                  /\ manifest_csv'.rows[k].doc_id = manifest_csv.rows[k].doc_id
                  /\ manifest_csv'.rows[k].path = manifest_csv.rows[k].path]_vars
    /\ [][(pc = "idle" /\ pc' = "loop" /\ manifest_csv.exists) =>
            /\ {"doc_id", "path", "status"} \subseteq manifest_csv.cols
            /\ manifest_csv' = manifest_csv
            /\ Len(df') = Len(manifest_csv.rows)
            /\ \A k \in 1..Len(df') : df'[k] = CsvReadRow(manifest_csv.rows[k])]_vars
    /\ [][(pc = "idle" /\ pc' # "idle" /\ manifest_csv.exists
             /\ ~({"doc_id", "path", "status"} \subseteq manifest_csv.cols)) =>
            /\ pc' = "exit" /\ result' = "setup_error"
            /\ UNCHANGED <<disk, mem>>]_vars
    /\ [][(pc = "idle" /\ pc' = "loop" /\ ~manifest_csv.exists) =>
            /\ manifest_csv'.exists
            /\ Len(df') = Cardinality(present)
            /\ {FileOf(df'[k].path) : k \in 1..Len(df')} = present
            /\ \A k \in 1..Len(df') :
                  manifest_csv'.rows[k] = CsvWriteRow(df'[k])]_vars
    /\ []((InRun \/ Returned) =>
          \A n \in 1..Len(NewLines) :
            \E k \in 1..Len(csv0) :
                /\ csv0[k].doc_id = NewLines[n].doc_id
                /\ csv0[k].path = NewLines[n].path)

C11_Witness ==
    /\ Returned
    /\ runs = MaxRuns
    /\ Len(df) >= 1
    /\ \E p \in present : \A k \in 1..Len(df) : FileOf(df[k].path) # p
    /\ \A k \in 1..Len(df) : df[k].status = "done"

\* C12: no step removes, rewrites, re-orders or truncates a line of the
\* tokens file: the lines before a step are a prefix of the lines after it;
\* every line a run has written is a record with the fields doc_id, path
\* and tokens of a row that the run has marked done, with the tokens of
\* that row's file; this holds too of the lines that are in the file when
\* the run is halted or raises.
C12_AppendOnly ==
    /\ [][/\ Len(jsonl') >= Len(jsonl)
          /\ SubSeq(jsonl', 1, Len(jsonl)) = jsonl]_vars
    /\ []((InRun \/ Returned) =>
            /\ Len(jsonl) >= len0
            /\ \A n \in 1..Len(NewLines) :
                  /\ DOMAIN NewLines[n] = {"doc_id", "path", "tokens"}
                  /\ \E k \in called :
                        /\ df[k].status = "done"
                        /\ RunStamp(df[k].updated_at)
                        /\ df[k].doc_id = NewLines[n].doc_id
                        /\ df[k].path = NewLines[n].path
                        /\ Len(NewLines[n].tokens) = df[k].n_tokens
                        /\ NewLines[n].tokens = TokenizeText(Content(FileOf(df[k].path))))
    /\ [][(InRun /\ pc' = "exit" /\ result' \in {"killed", "interrupted", "raised"}) =>
            LET left == IF result' = "killed" THEN df ELSE df'
            IN  \A n \in (len0 + 1)..Len(jsonl') :
                  /\ DOMAIN jsonl'[n] = {"doc_id", "path", "tokens"}
                  /\ \E k \in 1..Len(left) :
                        /\ left[k].status = "done"
                        /\ RunStamp(left[k].updated_at)
                        /\ left[k].doc_id = jsonl'[n].doc_id
                        /\ left[k].path = jsonl'[n].path
                        /\ Len(jsonl'[n].tokens) = left[k].n_tokens
                        /\ jsonl'[n].tokens = TokenizeText(Content(FileOf(left[k].path)))]_vars

\* C13 as stated: when a run has processed successfully a row that was
\* failed, the tokens file holds two lines or more with that doc_id.
C13_TwoLinesAfterRetry ==
    Returned =>
        \A k \in 1..Len(df0) :
            (df0[k].status = "failed" /\ df[k].status = "done") =>
                LinesIn(jsonl, df0[k].doc_id) >= 2

\* C13, amended: a run that processes successfully a row that was failed
\* appends exactly one line with its doc_id and removes no line of any
\* doc_id; an attempt that fails writes no line, so after the retry the
\* tokens file holds for that doc_id the lines it held before and one more.
C13_RetryAppendsOneLine ==
    Returned =>
        \A k \in 1..Len(df0) :
            /\ len0 <= Len(jsonl)
            /\ LinesIn(jsonl, df0[k].doc_id)
                  = LinesIn(SubSeq(jsonl, 1, len0), df0[k].doc_id)
                      + (IF k \in called /\ df[k].status = "done" THEN 1 ELSE 0)
            /\ (df0[k].status = "failed" /\ df[k].status = "done") => k \in called
            /\ df[k].status = "failed" => LinesFor(df0[k].doc_id) = 0

C13_Witness ==
    /\ Returned
    /\ len0 >= 1
    /\ \E k \in 1..Len(df0) :
          /\ df0[k].status = "failed"
          /\ df[k].status = "done"
          /\ LinesIn(SubSeq(jsonl, 1, len0), df0[k].doc_id) = 0
          /\ LinesIn(jsonl, df0[k].doc_id) = 1

\* C14: a row that a run has processed successfully is the loaded row with
\* status done, an empty error, n_chars the length of the text, n_tokens
\* the number of tokens, preview the first preview_chars characters of the
\* text with each newline replaced by a backslash and an n, and a time
\* of the clock during the run; the run has written exactly one line for
\* it, with the words of the tokenizer in order; when the run returns, every selected row
\* whose file exists and whose text the tokenizer accepts is such a row,
\* in memory and in the manifest file, and an empty file gives n_tokens 0
\* and a line with no token.
C14_SuccessPath ==
    (InRun \/ Returned) =>
        \A k \in 1..Len(df0) :
            LET text == Content(FileOf(df0[k].path))
                cut == SubSeq(text, 1, IF Len(text) < PreviewChars
                                       THEN Len(text) ELSE PreviewChars)
                lines == {n \in 1..Len(NewLines) : NewLines[n].doc_id = df0[k].doc_id}
            IN /\ (k \in called /\ df[k].status = "done") =>
                     /\ df[k] = [df0[k] EXCEPT !.status = "done",
                                               !.error = "",
                                               !.n_chars = Len(text),
                                               !.n_tokens = Len(TokenizeText(text)),
                                               !.preview = EscapeNewlines(cut),
                                               !.updated_at = df[k].updated_at]
                     /\ RunStamp(df[k].updated_at)
                     /\ Cardinality(lines) = 1
                     /\ \A n \in lines :
                           NewLines[n] = [doc_id |-> df0[k].doc_id,
                                          path |-> df0[k].path,
                                          tokens |-> TokenizeText(text)]
                     /\ text = <<>> =>
                           df[k].n_tokens = 0 /\ \A n \in lines : NewLines[n].tokens = <<>>
               /\ (Returned /\ df0[k].status \in statuses_to_process
                     /\ FileOf(df0[k].path) \in present
                     /\ ~(tokfail /\ text # <<>>)) =>
                     /\ k \in called
                     /\ df[k].status = "done"
                     /\ manifest_csv.rows[k] = df[k]

C14_Witness ==
    /\ Returned
    /\ Len(df) = 2
    /\ df[1].status = "done" /\ df[1].n_tokens > 0 /\ df[1].n_chars > PreviewChars
    /\ df[2].status = "done" /\ df[2].n_tokens = 0 /\ df[2].n_chars = 0
    /\ Len(NewLines) = 2
    /\ NewLines[1].doc_id = 1 /\ NewLines[1].tokens # <<>>
    /\ NewLines[2].doc_id = 2 /\ NewLines[2].tokens = <<>>

\* C15: with strict = False the result of filter_tokens_df is the rows of
\* the table, in order, whose pos is in pos_keep when pos_keep is supplied,
\* whose pos is not in pos_exclude when it is supplied and whose word is
\* not a stopword; with strict = True a pos_keep and a pos_exclude that
\* are both supplied, not empty and disjoint raise the configuration error.
C15_FilterContract ==
    (call.fn = "filter_tokens_df" /\ ret # NoRet) =>
        LET Wanted(r) ==
                /\ call.pos_keep.given => r.pos \in call.pos_keep.val
                /\ call.pos_exclude.given => r.pos \notin call.pos_exclude.val
                /\ call.stopwords.given => r.word \notin call.stopwords.val
        IN /\ ~call.strict =>
                /\ ret.kind = "rows"
                /\ ret.rows = SelectSeq(call.df, Wanted)
           /\ (call.strict /\ call.pos_keep.given /\ call.pos_exclude.given
                 /\ call.pos_keep.val # {} /\ call.pos_exclude.val # {}
                 /\ call.pos_keep.val \cap call.pos_exclude.val = {}) =>
                ret.kind = "ValueError"

\* C16: a call of tokenize_df without the id column, without the text
\* column, or with a pos_keep and a pos_exclude that are both supplied, not
\* empty and disjoint ends in an error, and it does so before
\* tokenize_text_fn has been called for any row.
C16_ConfigErrorsFailFast ==
    (call.fn = "tokenize_df" /\ ret # NoRet) =>
        ((\/ ~call.has_id
          \/ ~call.has_text
          \/ /\ call.pos_keep.given /\ call.pos_keep.val # {}
             /\ call.pos_exclude.given /\ call.pos_exclude.val # {}
             /\ call.pos_keep.val \cap call.pos_exclude.val = {}) =>
            /\ ret.kind \in {"KeyError", "ValueError"}
            /\ ret.invoked = 0)

\* C17: tokenize_text_janome and tokenize_text_sudachi return the empty
\* sequence, without raising and without calling the analyzer, for a text
\* that is None, empty or made of whitespace only, whatever the word_form
\* and whether or not the analyzer is there.
C17_BlankTextGivesNoToken ==
    (call.fn \in {"tokenize_text_janome", "tokenize_text_sudachi"} /\ ret # NoRet
       /\ (call.text.none
             \/ \A n \in 1..Len(call.text.chars) : call.text.chars[n] \in {" ", "\n"})) =>
        /\ ret.kind = "tokens"
        /\ ret.tokens = <<>>
        /\ ret.analyzer = 0

C17_Witness ==
    /\ call.fn = "tokenize_text_sudachi"
    /\ ~call.text.none
    /\ call.text.chars = <<" ", "\n">>
    /\ call.word_form = "bogus"
    /\ ~call.installed
    /\ ret # NoRet
    /\ ret.tokens = <<>>

\* C18: in every state, every row that is done in the manifest file has at
\* least one line with its doc_id in the output file as it is on disk: a
\* line is durable no later than the save that records its row as done.
C18_DoneRowsAreDurable ==
    manifest_csv.exists =>
        \A k \in 1..Len(manifest_csv.rows) :
            manifest_csv.rows[k].status = "done" =>
                LinesIn(jsonl, manifest_csv.rows[k].doc_id) >= 1

\* C19: the adapters process_manifest_to_jsonl builds itself (default:
\* Sudachi; compat: tokenize_df on a one-row table) call their target only
\* with arguments it accepts and return a token list for every text, an
\* empty one for an empty text.
C19_BuiltInAdaptersUsable ==
    (call.fn = "tokenize_text_fn" /\ ret # NoRet) =>
        /\ ret.kind = "tokens"
        /\ (call.text.none \/ call.text.chars = <<>>) => ret.tokens = <<>>

\* C20: the column names normalize_for_gsheet returns are pairwise distinct
\* and non-empty, whatever the column names of the input.
C20_UniqueColumnNames ==
    (call.fn = "normalize_for_gsheet" /\ ret # NoRet) =>
        /\ Len(ret.columns) = Len(call.cols)
        /\ \A m, n \in 1..Len(ret.columns) :
               /\ ret.columns[m] # <<>>
               /\ m # n => ret.columns[m] # ret.columns[n]
====
